---- MODULE Spec2Model ----
(***************************************************************************)
(* Virtual-Glucometer (src/lab.py): the classification rule engine         *)
(* (GlucoseAnalyzer), the SQLite store (DatabaseManager) with its three    *)
(* tables patients / readings / goals, and the wall clock the code reads   *)
(* with datetime.now().                                                    *)
(*                                                                         *)
(* Text values that the code only compares for equality (names, status     *)
(* tags, labels) are TLA+ strings.  Text values that the code orders       *)
(* (timestamps, cutoff dates) are sequences of character codes, so that    *)
(* SQLite's byte-wise comparison of TEXT is computed, not assumed.         *)
(***************************************************************************)
EXTENDS Integers, Sequences, FiniteSets, TLC

VARIABLES
    patients,   \* table patients, in rowid order
    readings,   \* table readings, in rowid order
    goals,      \* table goals, in rowid order
    now,        \* the wall clock: [ord |-> day of the year, sec |-> second of the day]
    ret,        \* the last call made on the program: operation, arguments, outcome
    ui,         \* the MainWindow object, once the application has been started
    connections \* the number of sqlite3 connections that are open

vars == <<patients, readings, goals, now, ret, ui, connections>>
store == <<patients, readings, goals>>

----------------------------------------------------------------------------
(* Bounds of the model *)

MaxPatients == 2        \* rows in patients
MaxReadings == 3        \* rows in readings
MaxGoals == 2           \* rows in goals
MaxRows == 3            \* rows in the database file, all tables together
MaxTicks == 1           \* clock advances of TickSeconds
AnalyzeLow == 3         \* SpecAnalyze classifies every integer from -AnalyzeLow ...
AnalyzeHigh == 1003     \* ... to AnalyzeHigh
MaxStatLen == 3         \* SpecStatistics: readings in a collection handed to calculate_statistics
MaxConnections == 2     \* SpecConnections: connections open at the same time
MaxPlotCalls == 23      \* SpecPlot: readings that load_patient_data hands to the trend plot

----------------------------------------------------------------------------
(* Text as sequences of character codes *)

CharSpace == 32
CharDash == 45
CharZero == 48
CharColon == 58

Digit(n) == CharZero + n
Pad2(n) == <<Digit((n \div 10) % 10), Digit(n % 10)>>
Pad4(n) == <<Digit((n \div 1000) % 10), Digit((n \div 100) % 10)>> \o Pad2(n % 100)

\* SQLite's BINARY collation on TEXT: memcmp over the common prefix, then the
\* shorter string first.
RECURSIVE TextLess(_, _)
TextLess(a, b) ==
    IF b = <<>> THEN FALSE
    ELSE IF a = <<>> THEN TRUE
    ELSE IF Head(a) # Head(b) THEN Head(a) < Head(b)
    ELSE TextLess(Tail(a), Tail(b))

TextGeq(a, b) == ~TextLess(a, b)

----------------------------------------------------------------------------
(* The clock and datetime.strftime *)

Year == 2026
StartOrd == 308         \* day of the year of the first start of the program (4 November)
StartSec == 28800       \* 08:00:00
TickSeconds == 43200    \* one advance of the clock: twelve hours
SecondsPerDay == 86400

\* Lengths of the months of Year, which is not a leap year.
DaysInMonth == <<31, 28, 31, 30, 31, 30, 31, 31, 30, 31, 30, 31>>

\* Days of the year before the first day of month m.
DaysBefore(m) == <<0, 31, 59, 90, 120, 151, 181, 212, 243, 273, 304, 334>>[m]

MonthOf(ord) == CHOOSE m \in 1..12 : DaysBefore(m) < ord /\ ord <= DaysBefore(m) + DaysInMonth[m]
DayOf(ord) == ord - DaysBefore(MonthOf(ord))

\* strftime("%Y-%m-%d")
strftime_date(t) ==
    Pad4(Year) \o <<CharDash>> \o Pad2(MonthOf(t.ord)) \o <<CharDash>> \o Pad2(DayOf(t.ord))

\* strftime("%Y-%m-%d %H:%M:%S")
strftime_datetime(t) ==
    strftime_date(t) \o <<CharSpace>> \o Pad2(t.sec \div 3600) \o <<CharColon>>
        \o Pad2((t.sec \div 60) % 60) \o <<CharColon>> \o Pad2(t.sec % 60)

\* datetime - timedelta(days=days)
minus_days(t, days) == [ord |-> t.ord - days, sec |-> t.sec]

\* Chronological order of two instants.
Before(t, u) == t.ord < u.ord \/ (t.ord = u.ord /\ t.sec < u.sec)

----------------------------------------------------------------------------
(* Python floats *)

(***************************************************************************)
(* The floats of the model are integers.  nan stands for float("nan"),     *)
(* which is not less than, equal to or greater than any float, and NULL    *)
(* for what SQLite stores in a REAL column when it is given nan, read back *)
(* as None.  Both are integers that no input of the model has as a value.  *)
(***************************************************************************)
nan == 0 - 2147483647
NULL == 0 - 2147483646

\* a < b
lt(a, b) == a # nan /\ b # nan /\ a < b

\* a <= b
le(a, b) == a # nan /\ b # nan /\ a <= b

----------------------------------------------------------------------------
(* GlucoseAnalyzer *)

CRITICAL_LOW == 54
WARNING_LOW == 70
NORMAL_LOW == 70
NORMAL_HIGH == 140
WARNING_HIGH == 180

analyze_offbyone(glucose_value, clock) ==
    LET base == [value |-> glucose_value, timestamp |-> strftime_datetime(clock)] IN
    IF glucose_value <= CRITICAL_LOW THEN
        base @@ [status |-> "CRITICAL LOW", color |-> "#FF4444", severity |-> "critical",
                 message |-> "CRITICAL: Severe Hypoglycemia", alarm |-> TRUE]
    ELSE IF glucose_value <= WARNING_LOW THEN
        base @@ [status |-> "WARNING LOW", color |-> "#FFA500", severity |-> "warning",
                 message |-> "WARNING: Low glucose level", alarm |-> TRUE]
    ELSE IF glucose_value < NORMAL_HIGH THEN
        base @@ [status |-> "NORMAL", color |-> "#4CAF50", severity |-> "normal",
                 message |-> "Glucose level is within normal range", alarm |-> FALSE]
    ELSE IF glucose_value < WARNING_HIGH THEN
        base @@ [status |-> "WARNING HIGH", color |-> "#FFA500", severity |-> "warning",
                 message |-> "WARNING: Elevated glucose level", alarm |-> TRUE]
    ELSE
        base @@ [status |-> "CRITICAL HIGH", color |-> "#FF4444", severity |-> "critical",
                 message |-> "CRITICAL: Severe Hyperglycemia", alarm |-> TRUE]

analyze_by_time_of_day(glucose_value, clock) ==
    LET base == [value |-> glucose_value, timestamp |-> strftime_datetime(clock)]
        limit == IF clock.sec < 43200 THEN 100 ELSE NORMAL_HIGH
    IN
    IF glucose_value < CRITICAL_LOW THEN
        base @@ [status |-> "CRITICAL LOW", color |-> "#FF4444", severity |-> "critical",
                 message |-> "CRITICAL: Severe Hypoglycemia", alarm |-> TRUE]
    ELSE IF glucose_value < WARNING_LOW THEN
        base @@ [status |-> "WARNING LOW", color |-> "#FFA500", severity |-> "warning",
                 message |-> "WARNING: Low glucose level", alarm |-> TRUE]
    ELSE IF glucose_value <= limit THEN
        base @@ [status |-> "NORMAL", color |-> "#4CAF50", severity |-> "normal",
                 message |-> "Glucose level is within normal range", alarm |-> FALSE]
    ELSE IF glucose_value <= WARNING_HIGH THEN
        base @@ [status |-> "WARNING HIGH", color |-> "#FFA500", severity |-> "warning",
                 message |-> "WARNING: Elevated glucose level", alarm |-> TRUE]
    ELSE
        base @@ [status |-> "CRITICAL HIGH", color |-> "#FF4444", severity |-> "critical",
                 message |-> "CRITICAL: Severe Hyperglycemia", alarm |-> TRUE]

analyze(glucose_value, clock) ==
    LET base == [value |-> glucose_value, timestamp |-> strftime_datetime(clock)] IN
    IF lt(glucose_value, CRITICAL_LOW) THEN
        base @@ [status |-> "CRITICAL LOW", color |-> "#FF4444", severity |-> "critical",
                 message |-> "CRITICAL: Severe Hypoglycemia", alarm |-> TRUE]
    ELSE IF lt(glucose_value, WARNING_LOW) THEN
        base @@ [status |-> "WARNING LOW", color |-> "#FFA500", severity |-> "warning",
                 message |-> "WARNING: Low glucose level", alarm |-> TRUE]
    ELSE IF le(glucose_value, NORMAL_HIGH) THEN
        base @@ [status |-> "NORMAL", color |-> "#4CAF50", severity |-> "normal",
                 message |-> "Glucose level is within normal range", alarm |-> FALSE]
    ELSE IF le(glucose_value, WARNING_HIGH) THEN
        base @@ [status |-> "WARNING HIGH", color |-> "#FFA500", severity |-> "warning",
                 message |-> "WARNING: Elevated glucose level", alarm |-> TRUE]
    ELSE
        base @@ [status |-> "CRITICAL HIGH", color |-> "#FF4444", severity |-> "critical",
                 message |-> "CRITICAL: Severe Hyperglycemia", alarm |-> TRUE]

----------------------------------------------------------------------------
(* Python values *)

None == <<>>                \* a returned None, or an omitted optional argument
Some(x) == <<x>>            \* a returned or passed value
NoException == "None"

Call(op, args, value, raised) == [op |-> op, args |-> args, value |-> value, raised |-> raised]

----------------------------------------------------------------------------
(* DatabaseManager: the SQLite store *)

\* SQLite enforces FOREIGN KEY clauses only on a connection that has run
\* PRAGMA foreign_keys = ON; sqlite3.connect() leaves it off and no method of
\* DatabaseManager turns it on.
foreign_keys == FALSE

\* Column defaults of the schema.
DEFAULT_target_min == 70
DEFAULT_target_max == 140
DEFAULT_achieved == 0

\* INTEGER PRIMARY KEY AUTOINCREMENT on a table no row is ever deleted from.
lastrowid(table) == Len(table) + 1

PatientIdExists(patient_id) == \E i \in DOMAIN patients : patients[i].id = patient_id
\* The UNIQUE constraint on patients.name.
NameTaken(name) == \E i \in DOMAIN patients : patients[i].name = name

\* All orders of the rows of a sequence.
Orders(rows) ==
    LET n == Len(rows)
        perms == {f \in [1..n -> 1..n] : \A i, j \in 1..n : i # j => f[i] # f[j]}
    IN  {[i \in 1..n |-> rows[f[i]]] : f \in perms}

init_database == /\ patients = <<>>
                 /\ readings = <<>>
                 /\ goals = <<>>

add_patient_no_unique(name, age, diabetes_type) ==
    /\ patients' = Append(patients,
            [id |-> lastrowid(patients), name |-> name, age |-> age,
             diabetes_type |-> diabetes_type, target_min |-> DEFAULT_target_min,
             target_max |-> DEFAULT_target_max, created_date |-> strftime_datetime(now)])
    /\ ret' = Call("add_patient", <<name, age, diabetes_type>>,
                   Some(lastrowid(patients)), NoException)
    /\ UNCHANGED <<readings, goals, now>>

add_patient_replace(name, age, diabetes_type) ==
    LET row == [id |-> lastrowid(patients), name |-> name, age |-> age,
                diabetes_type |-> diabetes_type, target_min |-> DEFAULT_target_min,
                target_max |-> DEFAULT_target_max,
                created_date |-> strftime_datetime(now)]
    IN  IF NameTaken(name) THEN
            /\ patients' = [i \in DOMAIN patients |->
                              IF patients[i].name = name
                              THEN [row EXCEPT !.id = patients[i].id] ELSE patients[i]]
            /\ ret' = Call("add_patient", <<name, age, diabetes_type>>, None, NoException)
            /\ UNCHANGED <<readings, goals, now>>
        ELSE
            /\ patients' = Append(patients, row)
            /\ ret' = Call("add_patient", <<name, age, diabetes_type>>,
                           Some(lastrowid(patients)), NoException)
            /\ UNCHANGED <<readings, goals, now>>

add_patient(name, age, diabetes_type) ==
    IF NameTaken(name) THEN
        \* sqlite3.IntegrityError, caught: the connection is closed, None returned
        /\ ret' = Call("add_patient", <<name, age, diabetes_type>>, None, NoException)
        /\ UNCHANGED <<patients, readings, goals, now>>
    ELSE
        /\ patients' = Append(patients,
                [id |-> lastrowid(patients), name |-> name, age |-> age,
                 diabetes_type |-> diabetes_type, target_min |-> DEFAULT_target_min,
                 target_max |-> DEFAULT_target_max,
                 created_date |-> strftime_datetime(now)])
        /\ ret' = Call("add_patient", <<name, age, diabetes_type>>,
                       Some(lastrowid(patients)), NoException)
        /\ UNCHANGED <<readings, goals, now>>

get_patients_newest_first ==
    [i \in DOMAIN patients |-> patients[Len(patients) + 1 - i]]

\* SELECT * FROM patients: a scan of the table, which visits rows in rowid order
get_patients == patients

get_patient_by_name(name) ==
    IF NameTaken(name)
    THEN Some(patients[CHOOSE i \in DOMAIN patients : patients[i].name = name])
    ELSE None

update_patient_targets_swapped(patient_id, target_min, target_max) ==
    /\ patients' = [i \in DOMAIN patients |->
                      IF patients[i].id = patient_id
                      THEN [patients[i] EXCEPT !.target_min = target_max,
                                               !.target_max = target_min]
                      ELSE patients[i]]
    /\ ret' = Call("update_patient_targets", <<patient_id, target_min, target_max>>,
                   None, NoException)
    /\ UNCHANGED <<readings, goals, now>>

update_patient_targets_all(patient_id, target_min, target_max) ==
    /\ patients' = [i \in DOMAIN patients |->
                      [patients[i] EXCEPT !.target_min = target_min,
                                          !.target_max = target_max]]
    /\ ret' = Call("update_patient_targets", <<patient_id, target_min, target_max>>,
                   None, NoException)
    /\ UNCHANGED <<readings, goals, now>>

update_patient_targets(patient_id, target_min, target_max) ==
    /\ patients' = [i \in DOMAIN patients |->
                      IF patients[i].id = patient_id
                      THEN [patients[i] EXCEPT !.target_min = target_min,
                                               !.target_max = target_max]
                      ELSE patients[i]]
    /\ ret' = Call("update_patient_targets", <<patient_id, target_min, target_max>>,
                   None, NoException)
    /\ UNCHANGED <<readings, goals, now>>

add_reading_swapped(patient_id, glucose_value, status, condition, timestamp) ==
    /\ readings' = Append(readings,
            [id |-> lastrowid(readings), patient_id |-> patient_id,
             glucose_value |-> glucose_value, status |-> condition,
             condition |-> status, timestamp |-> timestamp])
    /\ ret' = Call("add_reading",
                   <<patient_id, glucose_value, status, condition, timestamp>>,
                   None, NoException)
    /\ UNCHANGED <<patients, goals, now>>

add_reading(patient_id, glucose_value, status, condition, timestamp) ==
    IF foreign_keys /\ ~PatientIdExists(patient_id) THEN
        \* sqlite3.IntegrityError, not caught
        /\ ret' = Call("add_reading",
                       <<patient_id, glucose_value, status, condition, timestamp>>,
                       None, "IntegrityError")
        /\ UNCHANGED <<patients, readings, goals, now>>
    ELSE
        \* glucose_value has REAL affinity: an integer is stored as the float of
        \* the same value, and nan as NULL
        /\ readings' = Append(readings,
                [id |-> lastrowid(readings), patient_id |-> patient_id,
                 glucose_value |-> IF glucose_value = nan THEN NULL ELSE glucose_value,
                 status |-> status,
                 condition |-> condition, timestamp |-> timestamp])
        /\ ret' = Call("add_reading",
                       <<patient_id, glucose_value, status, condition, timestamp>>,
                       None, NoException)
        /\ UNCHANGED <<patients, goals, now>>

TimestampDescending(rows) ==
    \A i \in 1..(Len(rows) - 1) : TextGeq(rows[i].timestamp, rows[i + 1].timestamp)

\* ORDER BY timestamp DESC: SQL leaves the order of rows with equal keys open.
OrderByTimestampDesc(rows) == {o \in Orders(rows) : TimestampDescending(o)}

\* if days: ... -- None and 0 are both false in Python
Truthy(days) == days # None /\ days[1] # 0

get_readings_ascending(patient_id, days) ==
    LET ascending(rows) ==
            \A i \in 1..(Len(rows) - 1) : TextGeq(rows[i + 1].timestamp, rows[i].timestamp)
    IN
    IF Truthy(days) THEN
        UNION { LET keep(r) == r.patient_id = patient_id
                                   /\ TextGeq(r.timestamp, cutoff_date)
                IN  {o \in Orders(SelectSeq(readings, keep)) : ascending(o)}
                : cutoff_date \in {strftime_date(minus_days(now, days[1]))} }
    ELSE
        LET keep(r) == r.patient_id = patient_id
        IN  {o \in Orders(SelectSeq(readings, keep)) : ascending(o)}

get_readings_exact_cutoff(patient_id, days) ==
    IF Truthy(days) THEN
        UNION { LET keep(r) == r.patient_id = patient_id
                                   /\ TextGeq(r.timestamp, cutoff_date)
                IN  OrderByTimestampDesc(SelectSeq(readings, keep))
                : cutoff_date \in {strftime_datetime(minus_days(now, days[1]))} }
    ELSE
        LET keep(r) == r.patient_id = patient_id
        IN  OrderByTimestampDesc(SelectSeq(readings, keep))

\* get_readings with `if days is not None:` for `if days:`
get_readings_zero_is_today(patient_id, days) ==
    IF days # None THEN
        UNION { LET keep(r) == r.patient_id = patient_id
                                   /\ TextGeq(r.timestamp, cutoff_date)
                IN  OrderByTimestampDesc(SelectSeq(readings, keep))
                : cutoff_date \in {strftime_date(minus_days(now, days[1]))} }
    ELSE
        LET keep(r) == r.patient_id = patient_id
        IN  OrderByTimestampDesc(SelectSeq(readings, keep))

\* The lists get_readings can return.
get_readings(patient_id, days) ==
    IF Truthy(days) THEN
        UNION { LET keep(r) == r.patient_id = patient_id
                                   /\ TextGeq(r.timestamp, cutoff_date)
                IN  OrderByTimestampDesc(SelectSeq(readings, keep))
                : cutoff_date \in {strftime_date(minus_days(now, days[1]))} }
    ELSE
        LET keep(r) == r.patient_id = patient_id
        IN  OrderByTimestampDesc(SelectSeq(readings, keep))

add_goal_target_as_current(patient_id, goal_type, target_value, start_date, end_date) ==
    /\ goals' = Append(goals,
            [id |-> lastrowid(goals), patient_id |-> patient_id, goal_type |-> goal_type,
             target_value |-> target_value, current_value |-> target_value,
             start_date |-> start_date, end_date |-> end_date,
             achieved |-> DEFAULT_achieved])
    /\ ret' = Call("add_goal",
                   <<patient_id, goal_type, target_value, start_date, end_date>>,
                   None, NoException)
    /\ UNCHANGED <<patients, readings, now>>

add_goal(patient_id, goal_type, target_value, start_date, end_date) ==
    IF foreign_keys /\ ~PatientIdExists(patient_id) THEN
        /\ ret' = Call("add_goal",
                       <<patient_id, goal_type, target_value, start_date, end_date>>,
                       None, "IntegrityError")
        /\ UNCHANGED <<patients, readings, goals, now>>
    ELSE
        /\ goals' = Append(goals,
                [id |-> lastrowid(goals), patient_id |-> patient_id,
                 goal_type |-> goal_type, target_value |-> target_value,
                 current_value |-> 0, start_date |-> start_date, end_date |-> end_date,
                 achieved |-> DEFAULT_achieved])
        /\ ret' = Call("add_goal",
                       <<patient_id, goal_type, target_value, start_date, end_date>>,
                       None, NoException)
        /\ UNCHANGED <<patients, readings, now>>

get_goals(patient_id) ==
    LET keep(g) == g.patient_id = patient_id IN SelectSeq(goals, keep)

\* Default of the parameter achieved of update_goal_progress.
update_goal_progress_achieved == 0

update_goal_progress_derived(goal_id, current_value, achieved) ==
    /\ goals' = [i \in DOMAIN goals |->
                   IF goals[i].id = goal_id
                   THEN [goals[i] EXCEPT !.current_value = current_value,
                                         !.achieved = IF current_value >= goals[i].target_value
                                                      THEN 1 ELSE 0]
                   ELSE goals[i]]
    /\ ret' = Call("update_goal_progress", <<goal_id, current_value, achieved>>,
                   None, NoException)
    /\ UNCHANGED <<patients, readings, now>>

update_goal_progress_all(goal_id, current_value, achieved) ==
    /\ goals' = [i \in DOMAIN goals |->
                   [goals[i] EXCEPT !.current_value = current_value,
                                    !.achieved = IF achieved = None
                                                 THEN update_goal_progress_achieved
                                                 ELSE achieved[1]]]
    /\ ret' = Call("update_goal_progress", <<goal_id, current_value, achieved>>,
                   None, NoException)
    /\ UNCHANGED <<patients, readings, now>>

\* update_goal_progress that raises when no row has the id
update_goal_progress_strict(goal_id, current_value, achieved) ==
    IF \E i \in DOMAIN goals : goals[i].id = goal_id THEN
        /\ goals' = [i \in DOMAIN goals |->
                       IF goals[i].id = goal_id
                       THEN [goals[i] EXCEPT !.current_value = current_value,
                                             !.achieved = IF achieved = None
                                                          THEN update_goal_progress_achieved
                                                          ELSE achieved[1]]
                       ELSE goals[i]]
        /\ ret' = Call("update_goal_progress", <<goal_id, current_value, achieved>>,
                       None, NoException)
        /\ UNCHANGED <<patients, readings, now>>
    ELSE
        /\ ret' = Call("update_goal_progress", <<goal_id, current_value, achieved>>,
                       None, "LookupError")
        /\ UNCHANGED <<patients, readings, goals, now>>

\* achieved is None when the caller leaves the argument out.
update_goal_progress(goal_id, current_value, achieved) ==
    /\ goals' = [i \in DOMAIN goals |->
                   IF goals[i].id = goal_id
                   THEN [goals[i] EXCEPT !.current_value = current_value,
                                         !.achieved = IF achieved = None
                                                      THEN update_goal_progress_achieved
                                                      ELSE achieved[1]]
                   ELSE goals[i]]
    /\ ret' = Call("update_goal_progress", <<goal_id, current_value, achieved>>,
                   None, NoException)
    /\ UNCHANGED <<patients, readings, now>>

\* conn = sqlite3.connect(self.db_name)
connect(n) == n + 1

\* conn.close()
close(n) == n - 1

\* What cursor.execute and conn.commit raise besides IntegrityError: the file is
\* locked by another process or cannot be written.
StatementErrors == { "OperationalError" }

\* A method of DatabaseManager whose statement raises `error`: no method has a
\* finally clause and only add_patient has an except clause, for IntegrityError,
\* so the exception leaves the method before conn.close().  Nothing is
\* committed.
raises(method, args, error) ==
    /\ connections' = connect(connections)
    /\ ret' = Call(method, args, None, error)
    /\ UNCHANGED <<patients, readings, goals, now>>

----------------------------------------------------------------------------
(* StatisticsCalculator *)

\* Python computes on floats; the model computes the same quotients exactly, as
\* fractions num / den with den > 0.
Ratio(num, den) == [num |-> num, den |-> den]

RECURSIVE SumSeq(_)
SumSeq(values) == IF values = <<>> THEN 0 ELSE Head(values) + SumSeq(Tail(values))

RECURSIVE SumSquares(_)
SumSquares(values) ==
    IF values = <<>> THEN 0 ELSE Head(values) * Head(values) + SumSquares(Tail(values))

min(values) == CHOOSE m \in {values[i] : i \in DOMAIN values} :
                    \A i \in DOMAIN values : m <= values[i]
max(values) == CHOOSE m \in {values[i] : i \in DOMAIN values} :
                    \A i \in DOMAIN values : m >= values[i]

\* statistics.mean
mean(values) == Ratio(SumSeq(values), Len(values))

\* statistics.median: the middle of the sorted values, or the mean of the two
\* middle ones
median(values) ==
    LET data == SortSeq(values, LAMBDA a, b : a < b)
        n == Len(data)
    IN  IF n % 2 = 1 THEN Ratio(data[(n \div 2) + 1], 1)
        ELSE Ratio(data[n \div 2] + data[(n \div 2) + 1], 2)

\* statistics.stdev is the square root of the sample variance, which is this
\* fraction
variance(values) ==
    LET n == Len(values)
    IN  Ratio(n * SumSquares(values) - SumSeq(values) * SumSeq(values), n * (n - 1))

\* round(num / den, 0) with ties to the even neighbour
round_half_even(num, den) ==
    LET q == num \div den
        r == num % den
    IN  IF 2 * r < den THEN q
        ELSE IF 2 * r > den THEN q + 1
        ELSE IF q % 2 = 0 THEN q ELSE q + 1

estimated_a1c_truncated(values) ==
    (100 * SumSeq(values) + 4670 * Len(values)) \div (287 * Len(values))

\* round((average + 46.7) / 28.7, 1), in tenths
estimated_a1c(values) ==
    round_half_even(100 * SumSeq(values) + 4670 * Len(values), 287 * Len(values))

calculate_statistics_strict_range(rows) ==
    IF rows = <<>> THEN None
    ELSE
        LET values == [i \in DOMAIN rows |-> rows[i].glucose_value]
            normal_count == Cardinality({i \in DOMAIN values : 70 < values[i] /\ values[i] < 140})
        IN  Some([count |-> Len(values),
                  average |-> mean(values),
                  median |-> median(values),
                  std_dev_squared |-> IF Len(values) > 1 THEN variance(values)
                                      ELSE Ratio(0, 1),
                  min |-> min(values),
                  max |-> max(values),
                  range |-> max(values) - min(values),
                  time_in_range |-> Ratio(normal_count * 100, Len(values)),
                  estimated_a1c_tenths |-> estimated_a1c(values),
                  critical_low |-> Cardinality({i \in DOMAIN values : values[i] < 54}),
                  warning_low |-> Cardinality({i \in DOMAIN values : 54 <= values[i] /\ values[i] < 70}),
                  normal |-> normal_count,
                  warning_high |-> Cardinality({i \in DOMAIN values : 140 < values[i] /\ values[i] <= 180}),
                  critical_high |-> Cardinality({i \in DOMAIN values : values[i] > 180})])

calculate_statistics_zeroed(rows) ==
    LET values == [i \in DOMAIN rows |-> rows[i].glucose_value]
        normal_count == Cardinality({i \in DOMAIN values : 70 <= values[i] /\ values[i] <= 140})
        n == IF rows = <<>> THEN 1 ELSE Len(values)
        least == IF rows = <<>> THEN 0 ELSE min(values)
        greatest == IF rows = <<>> THEN 0 ELSE max(values)
    IN  Some([count |-> Len(values),
              average |-> Ratio(SumSeq(values), n),
              median |-> IF rows = <<>> THEN Ratio(0, 1) ELSE median(values),
              std_dev_squared |-> IF Len(values) > 1 THEN variance(values)
                                  ELSE Ratio(0, 1),
              min |-> least,
              max |-> greatest,
              range |-> greatest - least,
              time_in_range |-> Ratio(normal_count * 100, n),
              estimated_a1c_tenths |-> round_half_even(100 * SumSeq(values) + 4670 * n, 287 * n),
              critical_low |-> Cardinality({i \in DOMAIN values : values[i] < 54}),
              warning_low |-> Cardinality({i \in DOMAIN values : 54 <= values[i] /\ values[i] < 70}),
              normal |-> normal_count,
              warning_high |-> Cardinality({i \in DOMAIN values : 140 < values[i] /\ values[i] <= 180}),
              critical_high |-> Cardinality({i \in DOMAIN values : values[i] > 180})])

calculate_statistics_low_inclusive(rows) ==
    IF rows = <<>> THEN None
    ELSE
        LET values == [i \in DOMAIN rows |-> rows[i].glucose_value]
            normal_count == Cardinality({i \in DOMAIN values : 70 <= values[i] /\ values[i] <= 140})
        IN  Some([count |-> Len(values),
                  average |-> mean(values),
                  median |-> median(values),
                  std_dev_squared |-> IF Len(values) > 1 THEN variance(values)
                                      ELSE Ratio(0, 1),
                  min |-> min(values),
                  max |-> max(values),
                  range |-> max(values) - min(values),
                  time_in_range |-> Ratio(normal_count * 100, Len(values)),
                  estimated_a1c_tenths |-> estimated_a1c(values),
                  critical_low |-> Cardinality({i \in DOMAIN values : values[i] <= 54}),
                  warning_low |-> Cardinality({i \in DOMAIN values : 54 < values[i] /\ values[i] < 70}),
                  normal |-> normal_count,
                  warning_high |-> Cardinality({i \in DOMAIN values : 140 < values[i] /\ values[i] <= 180}),
                  critical_high |-> Cardinality({i \in DOMAIN values : values[i] > 180})])

calculate_statistics(rows) ==
    IF rows = <<>> THEN None
    ELSE
        \* glucose_value is at index 2 of a row
        LET values == [i \in DOMAIN rows |-> rows[i].glucose_value]
            normal_count == Cardinality({i \in DOMAIN values : 70 <= values[i] /\ values[i] <= 140})
        IN  Some([count |-> Len(values),
                  average |-> mean(values),
                  median |-> median(values),
                  std_dev_squared |-> IF Len(values) > 1 THEN variance(values)
                                      ELSE Ratio(0, 1),
                  min |-> min(values),
                  max |-> max(values),
                  range |-> max(values) - min(values),
                  time_in_range |-> Ratio(normal_count * 100, Len(values)),
                  estimated_a1c_tenths |-> estimated_a1c(values),
                  critical_low |-> Cardinality({i \in DOMAIN values : values[i] < 54}),
                  warning_low |-> Cardinality({i \in DOMAIN values : 54 <= values[i] /\ values[i] < 70}),
                  normal |-> normal_count,
                  warning_high |-> Cardinality({i \in DOMAIN values : 140 < values[i] /\ values[i] <= 180}),
                  critical_high |-> Cardinality({i \in DOMAIN values : values[i] > 180})])

----------------------------------------------------------------------------
(* TrendPlotWidget and MainWindow *)

(***************************************************************************)
(* ui holds the attributes of MainWindow and the contents of the widgets   *)
(* its handlers fill: the history table, the trend plot, the status        *)
(* labels, the statistics labels and the goal cards.  The labels hold the  *)
(* values they display, without the formatting to text.  event is the      *)
(* handler that ran last, what it was given and the message box it showed. *)
(* The theme, the export dialog and the advanced graphs read the store     *)
(* and write neither the store nor these attributes; they are left out.    *)
(***************************************************************************)

max_points == 20

\* The attributes set by MainWindow.__init__ and the widgets built by init_ui.
NewWindow ==
    [started |-> TRUE,
     current_patient_id |-> None,
     current_patient_name |-> "Default Patient",
     history |-> <<>>,
     history_table |-> <<>>,
     glucose_values |-> <<>>,
     timestamps |-> <<>>,
     status_value |-> None,
     status_text |-> "AWAITING INPUT",
     alarm_active |-> FALSE,
     flash_state |-> FALSE,
     stat_labels |-> None,
     goals_shown |-> <<>>,
     event |-> <<"__init__", <<>>, "">>]

\* TrendPlotWidget.add_reading
plot_add_reading(w, glucose_value) ==
    LET values == Append(w.glucose_values, glucose_value)
        stamps == Append(w.timestamps, Len(values))
    IN  IF Len(values) > max_points
        THEN [w EXCEPT !.glucose_values = Tail(values), !.timestamps = Tail(stamps)]
        ELSE [w EXCEPT !.glucose_values = values, !.timestamps = stamps]

\* TrendPlotWidget.clear_plot
clear_plot(w) == [w EXCEPT !.glucose_values = <<>>, !.timestamps = <<>>]

update_status_display(w, result) ==
    [w EXCEPT !.status_value = Some(result.value), !.status_text = result.status]

add_to_history(w, result, condition) ==
    [w EXCEPT !.history_table =
                  Append(@, <<result.timestamp, result.value, result.status, condition>>),
              !.history = Append(@, result)]

trigger_alarm(w) == [w EXCEPT !.alarm_active = TRUE]

\* stop_alarm without the reset of flash_state
stop_alarm_still_flashing(w) == [w EXCEPT !.alarm_active = FALSE]

stop_alarm(w) == [w EXCEPT !.alarm_active = FALSE, !.flash_state = FALSE]

flash_alarm(w) == IF ~w.alarm_active THEN w ELSE [w EXCEPT !.flash_state = ~@]

\* 'CRITICAL' in status, 'WARNING' in status
get_color_for_status(status) ==
    IF status \in {"CRITICAL LOW", "CRITICAL HIGH"} THEN "#FF4444"
    ELSE IF status \in {"WARNING LOW", "WARNING HIGH"} THEN "#FFA500"
    ELSE "#4CAF50"

\* On a glucose_value that is None, f"{result['value']:.1f}" in add_to_history
\* and statistics.mean(values) in calculate_statistics raise TypeError.  No
\* handler catches it: PyQt5 ends the process when an exception leaves a slot,
\* and main() ends when it leaves MainWindow.__init__.
raises_TypeError(rows) == \E i \in DOMAIN rows : rows[i].glucose_value = NULL

\* The loop of load_patient_data: for reading in reversed(readings)
RECURSIVE show_readings(_, _)
show_readings(w, rows) ==
    IF rows = <<>> THEN w
    ELSE
        LET reading == rows[Len(rows)]
            result == [value |-> reading.glucose_value, status |-> reading.status,
                       timestamp |-> reading.timestamp,
                       color |-> get_color_for_status(reading.status)]
        IN  show_readings(
                plot_add_reading(add_to_history(w, result, reading.condition),
                                 reading.glucose_value),
                SubSeq(rows, 1, Len(rows) - 1))

\* rows is what db.get_readings(current_patient_id) returns
load_patient_data(w, rows) ==
    IF ~Truthy(w.current_patient_id) THEN w
    ELSE show_readings(clear_plot([w EXCEPT !.history_table = <<>>, !.history = <<>>]),
                       rows)

\* rows is what db.get_readings(current_patient_id, days=30) returns
update_statistics(w, rows) ==
    IF ~Truthy(w.current_patient_id) THEN w
    ELSE IF rows = <<>> THEN [w EXCEPT !.stat_labels = None]
    ELSE LET stats == calculate_statistics(rows)
         IN  IF stats # None THEN [w EXCEPT !.stat_labels = stats] ELSE w

\* rows is what db.get_goals(current_patient_id) returns
load_goals(w, rows) ==
    IF ~Truthy(w.current_patient_id) THEN [w EXCEPT !.goals_shown = <<>>]
    ELSE [w EXCEPT !.goals_shown = rows]

\* str.strip() on the spaces of a text
RECURSIVE strip_left(_)
strip_left(text) ==
    IF text # <<>> /\ Head(text) = CharSpace THEN strip_left(Tail(text)) ELSE text

RECURSIVE strip_right(_)
strip_right(text) ==
    IF text # <<>> /\ text[Len(text)] = CharSpace
    THEN strip_right(SubSeq(text, 1, Len(text) - 1)) ELSE text

strip(text) == strip_right(strip_left(text))

RECURSIVE digits_value(_)
digits_value(digits) ==
    IF digits = <<>> THEN 0
    ELSE digits_value(SubSeq(digits, 1, Len(digits) - 1)) * 10
            + (digits[Len(digits)] - CharZero)

\* float(text) for the text "nan" and for a text made of an optional sign and
\* decimal digits; None stands for the ValueError that any other text of the
\* input set raises.
float(text) ==
    LET t == strip(text)
        signed == t # <<>> /\ Head(t) = CharDash
        digits == IF signed THEN Tail(t) ELSE t
    IN  IF t = <<110, 97, 110>> THEN Some(nan)
        ELSE IF digits = <<>> \/ \E i \in DOMAIN digits : digits[i] \notin CharZero..(CharZero + 9)
        THEN None
        ELSE Some(IF signed THEN 0 - digits_value(digits) ELSE digits_value(digits))

----------------------------------------------------------------------------
(* The calls made on the program: arguments are drawn from these sets *)

StartInstant == [ord |-> StartOrd, sec |-> StartSec]

\* ids of patients that can exist, for update_patient_targets
PatientIds == 1..MaxPatients
\* patient_id arguments of add_reading, get_readings and add_goal: stored or not
OwnerIds == {1, 2}
GoalIds == 1..MaxGoals

PatientInputs ==
    { <<"Alice", 30, "Type 1">>, <<"Alice", 40, "Type 2">>, <<"Bob", 30, "Type 1">> }

TargetInputs == { <<80, 120>> }

\* the store's callers are free to pass any name and any pair of targets
PatientInputsAny == PatientInputs \cup { <<"", 30, "Type 1">> }
TargetInputsAny == TargetInputs \cup { <<140, 70>> }

\* glucose value, status tag, condition label, timestamp: thirty days before the
\* first start in the morning, the evening before that, and the first start
ReadingInputs ==
    { <<100, "NORMAL", "Fasting",
        strftime_datetime([ord |-> StartOrd - 30, sec |-> StartSec])>>,
      <<53, "CRITICAL LOW", "After Meal",
        strftime_datetime([ord |-> StartOrd - 31, sec |-> StartSec + TickSeconds])>>,
      <<181, "CRITICAL HIGH", "Fasting", strftime_datetime(StartInstant)>> }

\* the days argument of get_readings: omitted, 0, one day, thirty days
DaysInputs == { None, Some(0), Some(1), Some(30) }

GoalInputs ==
    { <<"Average Glucose", 120, "2026-11-04", "2026-12-04">>,
      <<"Time in Range", 80, "2026-11-05", "2026-12-05">> }

\* current_value, achieved
ProgressInputs == { <<85, Some(1)>> }

\* current_value, achieved: under one target and over the other with the goal
\* declared achieved, over both with the goal declared not achieved, and
\* achieved left out
ProgressInputsAny == { <<85, Some(1)>>, <<200, Some(0)>>, <<85, None>> }

AnalyzeInputs == { CRITICAL_LOW, NORMAL_HIGH }

\* texts typed into the glucose input field: nothing, "abc", "-1", "0", " 100 ",
\* "1000", "1001" and "nan"
GlucoseTexts ==
    { <<>>, <<97, 98, 99>>, <<CharDash, 49>>, <<48>>, <<CharSpace, 49, 48, 48, CharSpace>>,
      <<49, 48, 48, 48>>, <<49, 48, 48, 49>>, <<110, 97, 110>> }

\* items of the condition combo box
ConditionInputs == { "Fasting" }

\* texts typed into the name field of the dialog to add a patient, with what
\* str.strip() makes of them
NameTexts ==
    { [text |-> "  ", stripped |-> ""],
      [text |-> " Alice ", stripped |-> "Alice"],
      [text |-> "Default Patient", stripped |-> "Default Patient"] }

\* goal type and target value chosen in the dialog to add a goal
GoalTexts == { <<"Take 100 Readings", 100>>, <<"Maintain Time in Range >80%", 80>> }

\* glucose values of the collections handed to calculate_statistics: both sides
\* of every threshold
StatValues == { 53, 54, 69, 70, 140, 141, 180, 181 }

\* the collection of the documented example
ExampleValues == <<100, 120, 140, 160, 180>>

\* eight values with the average 161.375, for which (average + 46.7) / 28.7 is
\* 7.25, halfway between two tenths
TieValues == <<161, 161, 161, 161, 161, 162, 162, 162>>

\* rows as get_readings returns them, for a list of glucose values
RowsOf(values) ==
    [i \in DOMAIN values |->
        [id |-> i, patient_id |-> 1, glucose_value |-> values[i],
         status |-> analyze(values[i], StartInstant).status, condition |-> "Fasting",
         timestamp |-> strftime_datetime(StartInstant)]]

StatInputs ==
    {RowsOf(values) : values \in
        (UNION {[1..n -> StatValues] : n \in 0..MaxStatLen})
            \cup {ExampleValues, TieValues}}

----------------------------------------------------------------------------
(* Steps *)

\* No MainWindow exists: the store is used on its own.
NoWindow == [started |-> FALSE]

Init ==
    /\ init_database
    /\ now = StartInstant
    /\ ret = Call("__init__", <<>>, None, NoException)
    /\ ui = NoWindow
    /\ connections = 0

Rows == Len(patients) + Len(readings) + Len(goals)

Elapsed(t) == (t.ord - StartOrd) * SecondsPerDay + (t.sec - StartSec)

\* Time passes.
Tick ==
    /\ Elapsed(now) < MaxTicks * TickSeconds
    /\ now' = IF now.sec + TickSeconds >= SecondsPerDay
              THEN [ord |-> now.ord + 1, sec |-> now.sec + TickSeconds - SecondsPerDay]
              ELSE [ord |-> now.ord, sec |-> now.sec + TickSeconds]
    /\ UNCHANGED <<patients, readings, goals, ret, ui, connections>>

Analyze(glucose_value) ==
    /\ ret' = Call("analyze", <<glucose_value>>, Some(analyze(glucose_value, now)),
                   NoException)
    /\ UNCHANGED <<patients, readings, goals, now, ui, connections>>

AddPatient ==
    \E inp \in PatientInputs :
        /\ (Len(patients) < MaxPatients /\ Rows < MaxRows) \/ NameTaken(inp[1])
        /\ add_patient(inp[1], inp[2], inp[3])
        /\ UNCHANGED <<ui, connections>>

UpdatePatientTargets ==
    \E patient_id \in PatientIds, t \in TargetInputs :
        /\ update_patient_targets(patient_id, t[1], t[2])
        /\ UNCHANGED <<ui, connections>>

AddReading ==
    \E patient_id \in OwnerIds, inp \in ReadingInputs :
        /\ Len(readings) < MaxReadings /\ Rows < MaxRows
        /\ add_reading(patient_id, inp[1], inp[2], inp[3], inp[4])
        /\ UNCHANGED <<ui, connections>>

GetReadings ==
    \E patient_id \in OwnerIds, days \in DaysInputs :
        \E rows \in get_readings(patient_id, days) :
            /\ ret' = Call("get_readings", <<patient_id, days>>, rows, NoException)
            /\ UNCHANGED <<patients, readings, goals, now, ui, connections>>

AddGoal ==
    \E patient_id \in OwnerIds, inp \in GoalInputs :
        /\ Len(goals) < MaxGoals /\ Rows < MaxRows
        /\ add_goal(patient_id, inp[1], inp[2], inp[3], inp[4])
        /\ UNCHANGED <<ui, connections>>

UpdateGoalProgress ==
    \E goal_id \in GoalIds, p \in ProgressInputs :
        /\ update_goal_progress(goal_id, p[1], p[2])
        /\ UNCHANGED <<ui, connections>>

AddPatientAny ==
    \E inp \in PatientInputsAny :
        /\ (Len(patients) < MaxPatients /\ Rows < MaxRows) \/ NameTaken(inp[1])
        /\ add_patient(inp[1], inp[2], inp[3])
        /\ UNCHANGED <<ui, connections>>

UpdatePatientTargetsAny ==
    \E patient_id \in PatientIds, t \in TargetInputsAny :
        /\ update_patient_targets(patient_id, t[1], t[2])
        /\ UNCHANGED <<ui, connections>>

GetPatients ==
    /\ ret' = Call("get_patients", <<>>, get_patients, NoException)
    /\ UNCHANGED <<patients, readings, goals, now, ui, connections>>

\* A handler that shows a message box and returns.
Refused(handler, given, message) ==
    /\ ui' = [ui EXCEPT !.event = <<handler, given, message>>]
    /\ UNCHANGED <<patients, readings, goals, now, ret, connections>>

\* MainWindow.__init__ with an ensure_default_patient that adds the default
\* patient without looking it up first
Start_without_lookup ==
    /\ NameTaken("Default Patient") \/ (Len(patients) < MaxPatients /\ Rows < MaxRows)
    /\ add_patient("Default Patient", 30, "Normal")
    /\ ui' = [NewWindow EXCEPT !.current_patient_id = ret'.value]
    /\ UNCHANGED connections

\* MainWindow.__init__ on the database file as it is: the first start of the
\* application, or a later one.
Start ==
    /\ NameTaken("Default Patient") \/ (Len(patients) < MaxPatients /\ Rows < MaxRows)
    /\ \* ensure_default_patient
       IF get_patient_by_name("Default Patient") = None
       THEN add_patient("Default Patient", 30, "Normal")
       ELSE UNCHANGED <<patients, readings, goals, now, ret>>
    /\ \E patient_id \in PatientIds :
          /\ Some(patient_id) =
                 IF get_patient_by_name("Default Patient") = None THEN ret'.value
                 ELSE Some(get_patient_by_name("Default Patient")[1].id)
          /\ \E rows \in get_readings(patient_id, None)' :
                ui' = IF raises_TypeError(rows) THEN NoWindow
                      ELSE load_patient_data(
                               load_goals([NewWindow EXCEPT
                                              !.current_patient_id = Some(patient_id)],
                                          get_goals(patient_id)'),
                               rows)
    /\ UNCHANGED connections

\* MainWindow.analyze_glucose with a text in the input field and a condition
\* selected.
AnalyzeGlucose ==
    \E text \in GlucoseTexts, condition \in ConditionInputs, patient_id \in PatientIds :
        /\ ui.started
        /\ ui.current_patient_id = Some(patient_id)
        /\ IF strip(text) = <<>> THEN
               Refused("analyze_glucose", text, "Please enter a glucose value.")
           ELSE IF float(strip(text)) = None THEN
               Refused("analyze_glucose", text, "Please enter a valid numeric value.")
           ELSE IF lt(float(strip(text))[1], 0) \/ lt(1000, float(strip(text))[1]) THEN
               Refused("analyze_glucose", text,
                       "Please enter a valid glucose value (0-1000 mg/dL).")
           ELSE
               LET glucose_value == float(strip(text))[1]
                   result == analyze(glucose_value, now)
                   shown == plot_add_reading(
                                add_to_history(update_status_display(ui, result),
                                               result, condition),
                                glucose_value)
                   alarmed == IF result.alarm THEN trigger_alarm(shown)
                              ELSE stop_alarm(shown)
               IN  /\ Len(readings) < MaxReadings /\ Rows < MaxRows
                   /\ add_reading(patient_id, glucose_value, result.status, condition,
                                  result.timestamp)
                   /\ \E rows \in get_readings(patient_id, Some(30))' :
                         ui' = IF raises_TypeError(rows) THEN NoWindow
                               ELSE [update_statistics(alarmed, rows)
                                        EXCEPT !.event = <<"analyze_glucose", text, "">>]
                   /\ UNCHANGED connections

ClearHistory_deleting ==
    \E reply \in {"Yes", "No"} :
        /\ ui.started
        /\ ui' = IF reply = "Yes"
                 THEN [stop_alarm(clear_plot(ui))
                          EXCEPT !.history_table = <<>>, !.history = <<>>,
                                 !.status_value = None, !.status_text = "AWAITING INPUT",
                                 !.event = <<"clear_history", reply, "">>]
                 ELSE [ui EXCEPT !.event = <<"clear_history", reply, "">>]
        /\ readings' = IF reply = "Yes"
                       THEN SelectSeq(readings,
                                      LAMBDA r : Some(r.patient_id) # ui.current_patient_id)
                       ELSE readings
        /\ UNCHANGED <<patients, goals, now, ret, connections>>

\* MainWindow.clear_history, answered Yes or No.
ClearHistory ==
    \E reply \in {"Yes", "No"} :
        /\ ui.started
        /\ ui' = IF reply = "Yes"
                 THEN [stop_alarm(clear_plot(ui))
                          EXCEPT !.history_table = <<>>, !.history = <<>>,
                                 !.status_value = None, !.status_text = "AWAITING INPUT",
                                 !.event = <<"clear_history", reply, "">>]
                 ELSE [ui EXCEPT !.event = <<"clear_history", reply, "">>]
        /\ UNCHANGED <<patients, readings, goals, now, ret, connections>>

\* What switch_patient does when the widgets exist and get_patient_by_name has
\* found the patient: all, recent and goal_rows are what get_readings(id),
\* get_readings(id, days=30) and get_goals(id) return for the patient.
switch_patient(w, patient, all, recent, goal_rows) ==
    load_goals(
        update_statistics(
            load_patient_data([w EXCEPT !.current_patient_id = Some(patient.id),
                                        !.current_patient_name = patient.name],
                              all),
            recent),
        goal_rows)

\* MainWindow.switch_patient: another patient is selected in the combo box,
\* which lists the names of the stored patients.
SwitchPatient ==
    \E i \in DOMAIN patients :
        /\ ui.started
        /\ patients[i].name # ui.current_patient_name
        /\ patients[i].name # ""
        /\ get_patient_by_name(patients[i].name) # None
        /\ \E all \in get_readings(patients[i].id, None),
              recent \in get_readings(patients[i].id, Some(30)) :
              ui' = IF raises_TypeError(all) \/ raises_TypeError(recent) THEN NoWindow
                    ELSE [switch_patient(ui, get_patient_by_name(patients[i].name)[1],
                                         all, recent, get_goals(patients[i].id))
                             EXCEPT !.event = <<"switch_patient", patients[i].name, "">>]
        /\ UNCHANGED <<patients, readings, goals, now, ret, connections>>

\* save_patient of the dialog to add a patient.  On success the combo box is
\* loaded again and set to the new name, which ends in switch_patient to the
\* new patient.
SavePatient ==
    \E inp \in NameTexts, age \in {30}, diabetes_type \in {"Type 1"} :
        /\ ui.started
        /\ IF inp.stripped = "" THEN
               Refused("save_patient", inp.text, "Please enter a patient name")
           ELSE
               /\ NameTaken(inp.stripped) \/ (Len(patients) < MaxPatients /\ Rows < MaxRows)
               /\ add_patient(inp.stripped, age, diabetes_type)
               /\ IF Truthy(ret'.value)
                  THEN \E patient_id \in PatientIds :
                          /\ Some(patient_id) = ret'.value
                          /\ \E first \in PatientIds :
                                /\ first = get_patients'[1].id
                                /\ \E shown \in get_readings(first, None)',
                                      all \in get_readings(patient_id, None)',
                                      recent \in get_readings(patient_id, Some(30))' :
                                      ui' = IF \/ raises_TypeError(shown)
                                               \/ raises_TypeError(all)
                                               \/ raises_TypeError(recent)
                                            THEN NoWindow
                                            ELSE [switch_patient(
                                                      ui, get_patient_by_name(inp.stripped)'[1],
                                                      all, recent, get_goals(patient_id)')
                                                    EXCEPT !.event =
                                                        <<"save_patient", inp.text, "">>]
                  ELSE ui' = [ui EXCEPT !.event = <<"save_patient", inp.text,
                                                    "Patient name already exists">>]
               /\ UNCHANGED connections

\* save_goal of the dialog to add a goal.
SaveGoal ==
    \E inp \in GoalTexts, patient_id \in PatientIds :
        /\ ui.started
        /\ ui.current_patient_id = Some(patient_id)
        /\ Len(goals) < MaxGoals /\ Rows < MaxRows
        /\ add_goal(patient_id, inp[1], inp[2], strftime_date(now),
                    strftime_date(minus_days(now, 0 - 30)))
        /\ ui' = [load_goals(ui, get_goals(patient_id)')
                     EXCEPT !.event = <<"save_goal", inp, "">>]
        /\ UNCHANGED connections

\* The alarm timer fires.
FlashAlarm ==
    /\ ui.started
    /\ ui' = [flash_alarm(ui) EXCEPT !.event = <<"flash_alarm", <<>>, "">>]
    /\ UNCHANGED <<patients, readings, goals, now, ret, connections>>

\* The refresh button of the statistics tab.
RefreshStatistics ==
    \E patient_id \in PatientIds :
        /\ ui.started
        /\ ui.current_patient_id = Some(patient_id)
        /\ \E rows \in get_readings(patient_id, Some(30)) :
              ui' = IF raises_TypeError(rows) THEN NoWindow
                    ELSE [update_statistics(ui, rows)
                             EXCEPT !.event = <<"update_statistics", <<>>, "">>]
        /\ UNCHANGED <<patients, readings, goals, now, ret, connections>>

UpdateGoalProgressAny ==
    \E goal_id \in GoalIds, p \in ProgressInputsAny :
        /\ update_goal_progress(goal_id, p[1], p[2])
        /\ UNCHANGED <<ui, connections>>

GetGoals ==
    \E patient_id \in OwnerIds :
        /\ ret' = Call("get_goals", <<patient_id>>, get_goals(patient_id), NoException)
        /\ UNCHANGED <<patients, readings, goals, now, ui, connections>>

AnalyzeCall == \E glucose_value \in AnalyzeInputs : Analyze(glucose_value)

\* The store's writes and the clock.
Next ==
    \/ Tick
    \/ AddPatient
    \/ UpdatePatientTargets
    \/ AddReading
    \/ AddGoal
    \/ UpdateGoalProgress

Spec == Init /\ [][Next]_vars

\* The classifier alone, on every integer of a range that covers all five bands
\* and both sides of the 0..1000 range the caller validates.
InitAnalyze ==
    /\ init_database
    /\ now = StartInstant
    /\ \E glucose_value \in (0 - AnalyzeLow)..AnalyzeHigh :
            ret = Call("input", <<glucose_value>>, None, NoException)
    /\ ui = NoWindow
    /\ connections = 0

AnalyzeInput == ret.op = "input" /\ Analyze(ret.args[1])

NextAnalyze ==
    \/ Tick
    \/ AnalyzeInput

SpecAnalyze == InitAnalyze /\ [][NextAnalyze]_vars

\* The classifier called while the store fills and time passes.
NextClassify ==
    \/ Tick
    \/ AnalyzeCall
    \/ AddPatient
    \/ AddReading
    \/ AddGoal

SpecClassify == Init /\ [][NextClassify]_vars

\* The statistics of a collection of readings, for every collection of up to
\* MaxStatLen readings and the documented example.
InitStatistics ==
    /\ init_database
    /\ now = StartInstant
    /\ \E rows \in StatInputs : ret = Call("input", <<rows>>, None, NoException)
    /\ ui = NoWindow
    /\ connections = 0

CalculateStatistics ==
    /\ ret.op = "input"
    /\ ret' = Call("calculate_statistics", ret.args, calculate_statistics(ret.args[1]),
                   NoException)
    /\ UNCHANGED <<patients, readings, goals, now, ui, connections>>

NextStatistics ==
    \/ CalculateStatistics

SpecStatistics == InitStatistics /\ [][NextStatistics]_vars

\* The application: the handlers of MainWindow on the store they own, following
\* each other within one second of the clock.
NextUI ==
    \/ Start
    \/ AnalyzeGlucose
    \/ ClearHistory
    \/ SwitchPatient
    \/ SavePatient
    \/ SaveGoal
    \/ FlashAlarm
    \/ RefreshStatistics

SpecUI == Init /\ [][NextUI]_vars

\* The application, and the two operations of the store that only another
\* front end calls.
NextApp ==
    \/ Start
    \/ AnalyzeGlucose
    \/ ClearHistory
    \/ SwitchPatient
    \/ SavePatient
    \/ SaveGoal
    \/ FlashAlarm
    \/ RefreshStatistics
    \/ UpdatePatientTargets
    \/ UpdateGoalProgress

SpecApp == Init /\ [][NextApp]_vars

\* The patients table written and read back.
NextPatients ==
    \/ Tick
    \/ AddPatientAny
    \/ UpdatePatientTargetsAny
    \/ GetPatients

SpecPatients == Init /\ [][NextPatients]_vars

\* The goals table written and read back.
NextGoals ==
    \/ AddGoal
    \/ UpdateGoalProgressAny
    \/ GetGoals

SpecGoals == Init /\ [][NextGoals]_vars

\* The readings table written and read back.
NextReadings ==
    \/ Tick
    \/ AddReading
    \/ GetReadings

SpecReadings == Init /\ [][NextReadings]_vars

\* The methods of the store with the connection each of them opens: the
\* statement runs and the method closes the connection, or the statement
\* raises.
ConnectAddPatient ==
    \E inp \in PatientInputs, error \in {NoException} \cup StatementErrors :
        IF error = NoException THEN
            /\ (Len(patients) < MaxPatients /\ Rows < MaxRows) \/ NameTaken(inp[1])
            /\ add_patient(inp[1], inp[2], inp[3])
            /\ connections' = close(connect(connections))
            /\ UNCHANGED ui
        ELSE
            /\ connections < MaxConnections
            /\ raises("add_patient", inp, error)
            /\ UNCHANGED ui

ConnectAddReading ==
    \E patient_id \in PatientIds, inp \in ReadingInputs,
       error \in {NoException} \cup StatementErrors :
        IF error = NoException THEN
            /\ Len(readings) < MaxReadings /\ Rows < MaxRows
            /\ add_reading(patient_id, inp[1], inp[2], inp[3], inp[4])
            /\ connections' = close(connect(connections))
            /\ UNCHANGED ui
        ELSE
            /\ connections < MaxConnections
            /\ raises("add_reading", <<patient_id>> \o inp, error)
            /\ UNCHANGED ui

ConnectAddGoal ==
    \E patient_id \in PatientIds, inp \in GoalInputs,
       error \in {NoException} \cup StatementErrors :
        IF error = NoException THEN
            /\ Len(goals) < MaxGoals /\ Rows < MaxRows
            /\ add_goal(patient_id, inp[1], inp[2], inp[3], inp[4])
            /\ connections' = close(connect(connections))
            /\ UNCHANGED ui
        ELSE
            /\ connections < MaxConnections
            /\ raises("add_goal", <<patient_id>> \o inp, error)
            /\ UNCHANGED ui

ConnectUpdateGoalProgress ==
    \E goal_id \in GoalIds, p \in ProgressInputs,
       error \in {NoException} \cup StatementErrors :
        IF error = NoException THEN
            /\ update_goal_progress(goal_id, p[1], p[2])
            /\ connections' = close(connect(connections))
            /\ UNCHANGED ui
        ELSE
            /\ connections < MaxConnections
            /\ raises("update_goal_progress", <<goal_id, p[1], p[2]>>, error)
            /\ UNCHANGED ui

ConnectGetGoals ==
    \E patient_id \in PatientIds, error \in {NoException} \cup StatementErrors :
        IF error = NoException THEN
            /\ ret' = Call("get_goals", <<patient_id>>, get_goals(patient_id), NoException)
            /\ connections' = close(connect(connections))
            /\ UNCHANGED <<patients, readings, goals, now, ui>>
        ELSE
            /\ connections < MaxConnections
            /\ raises("get_goals", <<patient_id>>, error)
            /\ UNCHANGED ui

\* The garbage collector frees the frames of the methods that raised: a
\* Connection object that is freed closes its connection.
Collect ==
    /\ connections > 0
    /\ connections' = 0
    /\ UNCHANGED <<patients, readings, goals, now, ret, ui>>

NextConnections ==
    \/ ConnectAddPatient
    \/ ConnectAddReading
    \/ ConnectAddGoal
    \/ ConnectUpdateGoalProgress
    \/ ConnectGetGoals
    \/ Collect

SpecConnections == Init /\ [][NextConnections]_vars

\* The loop of load_patient_data, one pass at a time, over a store that holds
\* up to MaxPlotCalls readings of the default patient.

\* n readings of patient 1, taken one second after another on the day of the
\* first start, with the values 60, 70, 80, ...
PlotRows(n) ==
    [i \in 1..n |->
        [id |-> i, patient_id |-> 1, glucose_value |-> 50 + 10 * i,
         status |-> analyze(50 + 10 * i, StartInstant).status, condition |-> "Fasting",
         timestamp |-> strftime_datetime([ord |-> StartOrd, sec |-> StartSec + i])]]

\* The window is started in the evening: the table, the history and the plot
\* are cleared and get_readings has returned the readings, newest first.
InitPlot ==
    /\ patients = << [id |-> 1, name |-> "Default Patient", age |-> 30,
                      diabetes_type |-> "Normal", target_min |-> DEFAULT_target_min,
                      target_max |-> DEFAULT_target_max,
                      created_date |-> strftime_datetime(StartInstant)] >>
    /\ \E n \in 0..MaxPlotCalls :
          /\ readings = PlotRows(n)
          /\ ret = Call("get_readings", <<1, None>>,
                        [k \in 1..n |-> PlotRows(n)[n + 1 - k]], NoException)
    /\ goals = <<>>
    /\ now = [ord |-> StartOrd, sec |-> StartSec + TickSeconds]
    /\ ui = clear_plot([NewWindow EXCEPT !.current_patient_id = Some(1)])
    /\ connections = 0

\* One pass of `for reading in reversed(readings)`: the passes made so far are
\* the entries of the history.
ShowReading ==
    /\ ui.started
    /\ ret.op = "get_readings"
    /\ Len(ui.history) < Len(ret.value)
    /\ LET reading == ret.value[Len(ret.value) - Len(ui.history)]
           result == [value |-> reading.glucose_value, status |-> reading.status,
                      timestamp |-> reading.timestamp,
                      color |-> get_color_for_status(reading.status)]
       IN  ui' = plot_add_reading(add_to_history(ui, result, reading.condition),
                                  reading.glucose_value)
    /\ UNCHANGED <<patients, readings, goals, now, ret, connections>>

NextPlot ==
    \/ ShowReading

SpecPlot == InitPlot /\ [][NextPlot]_vars

----------------------------------------------------------------------------
(* Properties *)

\* The step is a call of `op`: the call is the last one made, and the step is
\* not one that only lets time pass.
Returned(op) ==
    /\ ret'.op = op
    /\ \/ ret.op # op
       \/ ret'.args # ret.args
       \/ ret'.value # ret.value
       \/ ret'.raised # ret.raised
       \/ patients' # patients
       \/ readings' # readings
       \/ goals' # goals

Triple(result) == <<result.status, result.severity, result.alarm>>

\* The threshold table of the classification engine, row by row.
RowMatches(k, v) ==
    CASE k = 1 -> v < 54
      [] k = 2 -> 54 <= v /\ v < 70
      [] k = 3 -> 70 <= v /\ v <= 140
      [] k = 4 -> 140 < v /\ v <= 180
      [] k = 5 -> v > 180

RowTriple(k) ==
    CASE k = 1 -> <<"CRITICAL LOW", "critical", TRUE>>
      [] k = 2 -> <<"WARNING LOW", "warning", TRUE>>
      [] k = 3 -> <<"NORMAL", "normal", FALSE>>
      [] k = 4 -> <<"WARNING HIGH", "warning", TRUE>>
      [] k = 5 -> <<"CRITICAL HIGH", "critical", TRUE>>

\* C1: for every value, inside or outside 0..1000, analyze returns without an
\* error the status, severity and alarm flag of the first row of the threshold
\* table that the value matches.
C1_AnalyzeFollowsTable ==
    ret.op = "analyze" =>
        LET v == ret.args[1]
            first == {k \in 1..5 : RowMatches(k, v) /\ \A j \in 1..(k - 1) : ~RowMatches(j, v)}
        IN  /\ ret.raised = NoException
            /\ ret.value # None
            /\ first # {}
            /\ \A k \in first : Triple(ret.value[1]) = RowTriple(k)

\* C1 witness: a value above 1000 has been classified, as CRITICAL HIGH.
C1_Witness ==
    /\ ret.op = "analyze"
    /\ ret.args[1] > 1000
    /\ Triple(ret.value[1]) = <<"CRITICAL HIGH", "critical", TRUE>>

\* What analyze returns for each input value in the initial state.
AtStart == [v \in AnalyzeInputs |-> Triple(analyze(v, StartInstant))]

C3_DuplicateNameFails ==
    [][(Returned("add_patient") /\ NameTaken(ret'.args[1])) =>
          /\ ret'.value = None
          /\ ret'.raised = NoException
          /\ patients' = patients]_vars

\* C3 witness: add_patient has failed on the name of a patient stored with
\* another age and diabetes type.
C3_Witness ==
    /\ ret.op = "add_patient"
    /\ ret.value = None
    /\ \E i \in DOMAIN patients :
          /\ patients[i].name = ret.args[1]
          /\ patients[i].age # ret.args[2]
          /\ patients[i].diabetes_type # ret.args[3]

\* C4: no two rows of patients have the same name.
C4_UniqueNames ==
    \A i, j \in DOMAIN patients : i # j => patients[i].name # patients[j].name

\* C4 witness: two patients are stored and an insert of a taken name has failed.
C4_Witness ==
    /\ Len(patients) = 2
    /\ ret.op = "add_patient"
    /\ ret.value = None

\* C5: add_reading with a patient_id that no patient has raises an integrity
\* error and appends no reading.
C5_UnknownPatientRejected ==
    [][(Returned("add_reading") /\ ~PatientIdExists(ret'.args[1])) =>
          /\ ret'.raised = "IntegrityError"
          /\ readings' = readings]_vars

\* C6: every stored reading and every stored goal has the id of a stored
\* patient as its patient_id.
C6_ReferencesExist ==
    /\ \A i \in DOMAIN readings : PatientIdExists(readings[i].patient_id)
    /\ \A i \in DOMAIN goals : PatientIdExists(goals[i].patient_id)

\* C7: add_reading with the id of a stored patient raises nothing and appends
\* one reading that carries the given patient id, value, status, condition and
\* timestamp; the readings stored before, the patients and the goals stay as
\* they were.
C7_AddReadingAppends ==
    [][(Returned("add_reading") /\ PatientIdExists(ret'.args[1])) =>
          /\ ret'.raised = NoException
          /\ Len(readings') = Len(readings) + 1
          /\ SubSeq(readings', 1, Len(readings)) = readings
          /\ LET new == readings'[Len(readings')]
             IN  /\ new.patient_id = ret'.args[1]
                 /\ new.glucose_value = ret'.args[2]
                 /\ new.status = ret'.args[3]
                 /\ new.condition = ret'.args[4]
                 /\ new.timestamp = ret'.args[5]
                 /\ \A i \in DOMAIN readings : readings[i].id # new.id
          /\ patients' = patients
          /\ goals' = goals]_vars

\* C7 witness: a reading has been added for a stored patient after an earlier
\* reading.
C7_Witness ==
    /\ ret.op = "add_reading"
    /\ ret.raised = NoException
    /\ PatientIdExists(ret.args[1])
    /\ Len(readings) >= 2
    /\ readings[Len(readings)].patient_id = ret.args[1]

\* The instant a timestamp written by strftime("%Y-%m-%d %H:%M:%S") denotes.
Num2(text, i) == (text[i] - CharZero) * 10 + (text[i + 1] - CharZero)
strptime(text) ==
    [ord |-> DaysBefore(Num2(text, 6)) + Num2(text, 9),
     sec |-> Num2(text, 12) * 3600 + Num2(text, 15) * 60 + Num2(text, 18)]

\* How many times a row occurs in a list.
Occurrences(row, rows) == Cardinality({k \in DOMAIN rows : rows[k] = row})

\* C8: get_readings without a window returns each stored reading of the
\* patient once and no reading of another patient, and from first to last the
\* timestamps never increase, as text and as instants.
C8_AllReadingsNewestFirst ==
    (ret.op = "get_readings" /\ ret.args[2] = None) =>
        LET rows == ret.value IN
        /\ ret.raised = NoException
        /\ \A i \in DOMAIN readings :
              Occurrences(readings[i], rows) =
                  IF readings[i].patient_id = ret.args[1] THEN 1 ELSE 0
        /\ \A k \in DOMAIN rows : \E i \in DOMAIN readings : readings[i] = rows[k]
        /\ \A k \in 1..(Len(rows) - 1) :
              /\ ~TextLess(rows[k].timestamp, rows[k + 1].timestamp)
              /\ ~Before(strptime(rows[k].timestamp), strptime(rows[k + 1].timestamp))

\* C8 witness: get_readings without a window has returned two readings with
\* different timestamps while a reading of another patient is stored.
C8_Witness ==
    /\ ret.op = "get_readings"
    /\ ret.args[2] = None
    /\ Len(ret.value) >= 2
    /\ ret.value[1].timestamp # ret.value[2].timestamp
    /\ \E i \in DOMAIN readings : readings[i].patient_id # ret.args[1]

\* The rows are exactly the stored readings at the expected places of the table.
ExactlyRows(rows, expected) ==
    /\ \A i \in DOMAIN readings :
          Occurrences(readings[i], rows) = IF i \in expected THEN 1 ELSE 0
    /\ \A k \in DOMAIN rows : \E i \in DOMAIN readings : readings[i] = rows[k]

\* C9 as claimed: whenever days is given, get_readings returns exactly the
\* patient's readings whose timestamp text is at or after the date text of now
\* minus days; with days = 30 a reading whose instant is before now minus 30
\* days is left out and one whose instant is after it is returned.
C9_WindowAsClaimed ==
    [][(Returned("get_readings") /\ ret'.args[2] # None) =>
          LET days == ret'.args[2][1]
              edge == minus_days(now, days)
              cutoff_date == strftime_date(edge)
              inWindow(r) == TextGeq(r.timestamp, cutoff_date)
              mine == {i \in DOMAIN readings : readings[i].patient_id = ret'.args[1]}
          IN  /\ ExactlyRows(ret'.value, {i \in mine : inWindow(readings[i])})
              /\ days = 30 =>
                    \A i \in mine :
                        /\ Before(strptime(readings[i].timestamp), edge) =>
                              Occurrences(readings[i], ret'.value) = 0
                        /\ Before(edge, strptime(readings[i].timestamp)) =>
                              Occurrences(readings[i], ret'.value) = 1]_vars

\* C9 as claimed, for days other than 0 only: violated as well, by a reading
\* taken in the morning of the day of now minus 30 days and read back in the
\* evening.
C9_WindowAsClaimedNonZero ==
    [][(Returned("get_readings") /\ Truthy(ret'.args[2])) =>
          LET edge == minus_days(now, ret'.args[2][1])
              mine == {i \in DOMAIN readings : readings[i].patient_id = ret'.args[1]}
          IN  ret'.args[2][1] = 30 =>
                    \A i \in mine :
                        Before(strptime(readings[i].timestamp), edge) =>
                            Occurrences(readings[i], ret'.value) = 0]_vars

\* C9 amended: whenever days is given and is not 0, get_readings returns exactly
\* the patient's readings whose timestamp text is at or after the date text of
\* now minus days; with days = 30 a reading dated before the day of now minus
\* 30 days is left out, and one dated on that day or later is returned, at
\* whatever time of that day it was taken.
C9_WindowByDate ==
    [][(Returned("get_readings") /\ Truthy(ret'.args[2])) =>
          \A edge \in {minus_days(now, ret'.args[2][1])} :
          \A cutoff_date \in {strftime_date(edge)} :
          \A mine \in {{i \in DOMAIN readings : readings[i].patient_id = ret'.args[1]}} :
              /\ ExactlyRows(ret'.value,
                             {i \in mine : TextGeq(readings[i].timestamp, cutoff_date)})
              /\ ret'.args[2][1] = 30 =>
                    \A i \in mine :
                        /\ strptime(readings[i].timestamp).ord < edge.ord =>
                              Occurrences(readings[i], ret'.value) = 0
                        /\ strptime(readings[i].timestamp).ord >= edge.ord =>
                              Occurrences(readings[i], ret'.value) = 1]_vars

\* C9 witness: get_readings with days = 30 has returned a reading taken in the
\* morning thirty days before the first start and left out a stored reading of
\* the same patient.
C9_Witness ==
    /\ ret.op = "get_readings"
    /\ ret.args[2] = Some(30)
    /\ \E k \in DOMAIN ret.value :
          strptime(ret.value[k].timestamp) = [ord |-> StartOrd - 30, sec |-> StartSec]
    /\ \E i \in DOMAIN readings :
          /\ readings[i].patient_id = ret.args[1]
          /\ Occurrences(readings[i], ret.value) = 0

\* C10: the goal a call of add_goal creates has current_value 0 and achieved 0.
C10_NewGoalZeroed ==
    [][(Returned("add_goal") /\ Len(goals') = Len(goals) + 1) =>
          LET new == goals'[Len(goals')]
          IN  /\ new.current_value = 0
              /\ new.achieved = 0
              /\ new.goal_type = ret'.args[2]
              /\ new.target_value = ret'.args[3]]_vars

\* C10 witness: add_goal has created a goal with a target value other than 0.
C10_Witness ==
    /\ ret.op = "add_goal"
    /\ goals # <<>>
    /\ goals[Len(goals)].target_value # 0
    /\ goals[Len(goals)].current_value = 0

\* The glucose values of the collection the last call was given.
ValuesGiven == [i \in DOMAIN ret.args[1] |-> ret.args[1][i].glucose_value]

\* C19: calculate_statistics returns None, and no aggregate, for an empty
\* collection; for a collection that is not empty it returns an aggregate whose
\* count is at least 1.
C19_EmptyIsAbsent ==
    ret.op = "calculate_statistics" =>
        /\ ret.raised = NoException
        /\ ret.args[1] = <<>> => ret.value = None
        /\ ret.args[1] # <<>> => (ret.value # None /\ ret.value[1].count >= 1)

\* C19 witness: calculate_statistics has returned None for the empty collection.
C19_Witness ==
    /\ ret.op = "calculate_statistics"
    /\ ret.args[1] = <<>>
    /\ ret.value = None

\* C20: for a collection of values V that is not empty, count is the number of
\* values, min and max are the least and the greatest value, range is max - min
\* and time_in_range is 100 times the number of values from 70 to 140, both
\* included, divided by the number of values; the example 100, 120, 140, 160,
\* 180 gives count 5, min 100, max 180, range 80 and time_in_range 60.
C20_Aggregate ==
    (ret.op = "calculate_statistics" /\ ret.args[1] # <<>>) =>
        LET V == ValuesGiven
            stats == ret.value[1]
            inRange == {i \in DOMAIN V : V[i] \in 70..140}
        IN  /\ stats.count = Len(V)
            /\ \E i \in DOMAIN V : V[i] = stats.min
            /\ \A i \in DOMAIN V : stats.min <= V[i]
            /\ \E i \in DOMAIN V : V[i] = stats.max
            /\ \A i \in DOMAIN V : V[i] <= stats.max
            /\ stats.range = stats.max - stats.min
            /\ stats.time_in_range.den > 0
            /\ stats.time_in_range.num * Len(V)
                    = 100 * Cardinality(inRange) * stats.time_in_range.den
            /\ V = ExampleValues =>
                    /\ stats.count = 5 /\ stats.min = 100 /\ stats.max = 180
                    /\ stats.range = 80
                    /\ stats.time_in_range.num = 60 * stats.time_in_range.den

\* C20 witness: the statistics of the example have been computed, and its three
\* values from 100 to 140 counted as in range.
C20_Witness ==
    /\ ret.op = "calculate_statistics"
    /\ ValuesGiven = ExampleValues
    /\ ret.value[1].normal = 3

\* C11: add_goal returns the id of the goal it created, which is the id of the
\* new row that get_goals returns for the patient afterwards.
C11_AddGoalReturnsId ==
    [][(Returned("add_goal") /\ Len(goals') = Len(goals) + 1) =>
          /\ ret'.value # None
          /\ \A patient_id \in OwnerIds :
                patient_id = ret'.args[1] =>
                    \E k \in DOMAIN get_goals(patient_id)' :
                        /\ get_goals(patient_id)'[k].id = ret'.value[1]
                        /\ get_goals(patient_id)'[k] = goals'[Len(goals')]]_vars

\* C12: after update_goal_progress on the id of a stored goal, get_goals for
\* the patient of that goal returns the goal with the current_value given and
\* with the achieved flag given, or 0 when none was given, whatever the target
\* value of the goal is.
C12_ProgressOverwrites ==
    [][Returned("update_goal_progress") =>
          \A i \in DOMAIN goals :
              goals[i].id = ret'.args[1] =>
                  \A rows \in {get_goals(goals[i].patient_id)'} :
                      /\ Cardinality({k \in DOMAIN rows : rows[k].id = goals[i].id}) = 1
                      /\ \A k \in DOMAIN rows :
                            rows[k].id = goals[i].id =>
                                /\ rows[k].current_value = ret'.args[2]
                                /\ rows[k].achieved =
                                        IF ret'.args[3] = None THEN 0 ELSE ret'.args[3][1]
                                /\ rows[k].target_value = goals[i].target_value]_vars

\* C12 witness: a goal has been declared achieved with a current value under
\* its target, and the second goal has been updated.
C12_Witness ==
    /\ ret.op = "update_goal_progress"
    /\ ret.args[1] = 2
    /\ \E i \in DOMAIN goals :
          /\ goals[i].id = 2
          /\ goals[i].achieved = 1
          /\ goals[i].current_value < goals[i].target_value

TargetsOrdered(patient) == patient.target_min < patient.target_max

\* C16 as claimed: every patient has target_min < target_max, whatever calls of
\* add_patient and update_patient_targets were made.
C16_TargetsOrdered ==
    \A i \in DOMAIN patients : TargetsOrdered(patients[i])

\* C16 amended: a new patient gets the targets 70 and 140, and a call of
\* update_patient_targets that is given target_min < target_max keeps
\* target_min < target_max in every patient that had it; the store does not
\* check the order of the targets it is given.
C16_TargetsOrderedIfGiven ==
    [][/\ Len(patients') > Len(patients) =>
             /\ patients'[Len(patients')].target_min = 70
             /\ patients'[Len(patients')].target_max = 140
       /\ (Returned("update_patient_targets") /\ ret'.args[2] < ret'.args[3]) =>
             \A i \in DOMAIN patients :
                 /\ TargetsOrdered(patients[i]) => TargetsOrdered(patients'[i])
                 /\ patients[i].id = ret'.args[1] =>
                       /\ patients'[i].target_min = ret'.args[2]
                       /\ patients'[i].target_max = ret'.args[3]]_vars

\* C16 witness: update_patient_targets has stored the targets 80 and 120 in a
\* patient while the other patient keeps 70 and 140.
C16_Witness ==
    /\ ret.op = "update_patient_targets"
    /\ ret.args[2] < ret.args[3]
    /\ \E i, j \in DOMAIN patients :
          /\ patients[i].id = ret.args[1]
          /\ patients[i].target_min = 80 /\ patients[i].target_max = 120
          /\ patients[j].target_min = 70 /\ patients[j].target_max = 140

\* C17: no patient has the empty name.
C17_NamesNonEmpty ==
    \A i \in DOMAIN patients : patients[i].name # ""

\* The ids of a list of patient rows, in the order of the list.
IdsOf(rows) == [k \in DOMAIN rows |-> rows[k].id]

C13_ProgressOnlyByUpdate ==
    [][\A i \in DOMAIN goals :
          /\ i \in DOMAIN goals'
          /\ goals'[i].id = goals[i].id
          /\ goals'[i].patient_id = goals[i].patient_id
          /\ goals'[i].goal_type = goals[i].goal_type
          /\ goals'[i].target_value = goals[i].target_value
          /\ goals'[i].start_date = goals[i].start_date
          /\ goals'[i].end_date = goals[i].end_date
          /\ (\/ goals'[i].current_value # goals[i].current_value
              \/ goals'[i].achieved # goals[i].achieved)
                => /\ Returned("update_goal_progress")
                   /\ ret'.args[1] = goals[i].id
                   /\ goals'[i].current_value = ret'.args[2]
                   /\ Some(goals'[i].achieved) = ret'.args[3]]_vars

\* C13 witness: of two goals of one patient the first has been updated to 85
\* and achieved, the second is as it was created, and the history has been
\* cleared in the window since.
C13_Witness ==
    /\ Len(goals) = 2
    /\ goals[1].patient_id = goals[2].patient_id
    /\ ret.op = "update_goal_progress" /\ ret.args[1] = goals[1].id
    /\ goals[1].current_value = 85 /\ goals[1].achieved = 1
    /\ goals[2].current_value = 0 /\ goals[2].achieved = 0
    /\ ui.started
    /\ ui.event[1] = "clear_history" /\ ui.event[2] = "Yes"

\* C14: every step of the store and of the window keeps every stored reading,
\* with every field as it was stored, so the number of stored readings never
\* decreases.
C14_ReadingsImmutable ==
    [][/\ Len(readings') >= Len(readings)
       /\ \A i \in DOMAIN readings : readings'[i] = readings[i]]_vars

\* C14 witness: the history has been cleared in the window, which shows no
\* reading, and the store holds the readings taken before.
C14_Witness ==
    /\ ui.started
    /\ ui.event[1] = "clear_history" /\ ui.event[2] = "Yes"
    /\ ui.history = <<>> /\ ui.history_table = <<>>
    /\ \E i \in DOMAIN readings : Some(readings[i].patient_id) = ui.current_patient_id

\* C15: every step of the store and of the window keeps every stored patient,
\* with its id, name, age, diabetes type and creation timestamp; target_min
\* and target_max change only in a call of update_patient_targets that names
\* the patient's id, and then to the values the call passes.
C15_PatientsOnlyRetargeted ==
    [][\A i \in DOMAIN patients :
          /\ i \in DOMAIN patients'
          /\ patients'[i].id = patients[i].id
          /\ patients'[i].name = patients[i].name
          /\ patients'[i].age = patients[i].age
          /\ patients'[i].diabetes_type = patients[i].diabetes_type
          /\ patients'[i].created_date = patients[i].created_date
          /\ (\/ patients'[i].target_min # patients[i].target_min
              \/ patients'[i].target_max # patients[i].target_max)
                => /\ Returned("update_patient_targets")
                   /\ ret'.args[1] = patients[i].id
                   /\ patients'[i].target_min = ret'.args[2]
                   /\ patients'[i].target_max = ret'.args[3]]_vars

\* C15 witness: of two patients the second has been given the targets 80 and
\* 120, the first has the targets it was created with, and the window has
\* switched between them since.
C15_Witness ==
    /\ Len(patients) = 2
    /\ ret.op = "update_patient_targets" /\ ret.args[1] = patients[2].id
    /\ patients[2].target_min = 80 /\ patients[2].target_max = 120
    /\ patients[1].target_min = 70 /\ patients[1].target_max = 140
    /\ ui.started
    /\ ui.event[1] = "switch_patient"

\* C21: for a collection of values that is not empty, each of critical_low,
\* warning_low, normal, warning_high and critical_high is the number of values
\* for which GlucoseAnalyzer.analyze returns the status CRITICAL LOW, WARNING
\* LOW, NORMAL, WARNING HIGH and CRITICAL HIGH, and the five add up to count.
C21_BucketsAgree ==
    (ret.op = "calculate_statistics" /\ ret.args[1] # <<>>) =>
        LET V == ValuesGiven
            stats == ret.value[1]
            Classified(status) ==
                Cardinality({i \in DOMAIN V : analyze(V[i], now).status = status})
        IN  /\ stats.critical_low = Classified("CRITICAL LOW")
            /\ stats.warning_low = Classified("WARNING LOW")
            /\ stats.normal = Classified("NORMAL")
            /\ stats.warning_high = Classified("WARNING HIGH")
            /\ stats.critical_high = Classified("CRITICAL HIGH")
            /\ stats.critical_low + stats.warning_low + stats.normal
                    + stats.warning_high + stats.critical_high = stats.count

\* C21 witness: the statistics of the boundary values 54, 140 and 180 have been
\* computed, with one value counted in each of warning_low, normal and
\* warning_high.
C21_Witness ==
    /\ ret.op = "calculate_statistics"
    /\ ValuesGiven = <<54, 140, 180>>
    /\ ret.value[1].warning_low = 1
    /\ ret.value[1].normal = 1
    /\ ret.value[1].warning_high = 1

\* C22: for a collection that is not empty, estimated_a1c is a tenth nearest to
\* (average + 46.7) / 28.7: it differs from this value by at most 0.05, and it
\* is 6.5 for an average of 140.
C22_A1cNearestTenth ==
    (ret.op = "calculate_statistics" /\ ret.args[1] # <<>>) =>
        LET V == ValuesGiven
            \* (average + 46.7) / 28.7 in tenths is Num / Den
            Num == 100 * SumSeq(V) + 4670 * Len(V)
            Den == 287 * Len(V)
            tenths == ret.value[1].estimated_a1c_tenths
        IN  /\ 2 * (tenths * Den - Num) <= Den
            /\ 2 * (Num - tenths * Den) <= Den
            /\ SumSeq(V) = 140 * Len(V) => tenths = 65

\* C22 witness: for eight values with the average 161.375 the value to round
\* is 7.25, and the estimate returned is 7.2.
C22_Witness ==
    /\ ret.op = "calculate_statistics"
    /\ ValuesGiven = TieValues
    /\ ret.value[1].estimated_a1c_tenths = 72

\* C23: every operation of the store closes the connection it opened before
\* it returns or raises, so that no connection is open between two
\* operations.
C23_NoConnectionOpen ==
    connections = 0

\* C24: every reading stored by analyze_glucose carries the status that
\* analyze returns for the glucose value that is stored, in every later state.
\* (All readings of the window's specification are stored by analyze_glucose.)
C24_StoredStatusAgrees ==
    \A i \in DOMAIN readings :
        /\ readings[i].glucose_value # NULL
        /\ readings[i].status = analyze(readings[i].glucose_value, now).status

\* C25: analyze_glucose stores a reading only for a numeric value v with
\* 0 <= v <= 1000, and when it refuses its input (empty, not numeric, negative,
\* greater than 1000) it stores nothing and leaves the history, the trend plot
\* and the alarm state as they are.
C25_OnlyValidPersisted ==
    [][ /\ readings' # readings =>
              /\ ret'.op = "add_reading"
              /\ 0 <= ret'.args[2] /\ ret'.args[2] <= 1000
        /\ (ui.started /\ ui'.started /\ ui'.event[1] = "analyze_glucose"
                /\ ui'.event[3] # "") =>
              /\ readings' = readings
              /\ ui'.history = ui.history
              /\ ui'.history_table = ui.history_table
              /\ ui'.glucose_values = ui.glucose_values
              /\ ui'.timestamps = ui.timestamps
              /\ ui'.alarm_active = ui.alarm_active
              /\ ui'.flash_state = ui.flash_state ]_vars

C27_ZeroDaysNoWindow ==
    [][(Returned("get_readings") /\ ret'.args[2] = Some(0)) =>
          \A mine \in {{i \in DOMAIN readings : readings[i].patient_id = ret'.args[1]}} :
              /\ ExactlyRows(ret'.value, mine)
              /\ TimestampDescending(ret'.value)]_vars

\* C27 witness: get_readings with days = 0 has returned two readings dated
\* before the day of now.
C27_Witness ==
    /\ ret.op = "get_readings"
    /\ ret.args[2] = Some(0)
    /\ Len(ret.value) >= 2
    /\ \A k \in DOMAIN ret.value : strptime(ret.value[k].timestamp).ord < now.ord

\* C28: after any number of add_reading calls on the trend plot, more than
\* max_points included, there is one x position per retained value, the x
\* positions are strictly increasing, and the retained values are the last
\* readings that arrived, at most max_points of them, in the order of arrival.
C28_PlotPositionsIncrease ==
    ui.started =>
        LET n == Len(ui.history)
            first == IF n > max_points THEN n - max_points + 1 ELSE 1
        IN  /\ Len(ui.timestamps) = Len(ui.glucose_values)
            /\ \A i \in 1..(Len(ui.timestamps) - 1) :
                  ui.timestamps[i] < ui.timestamps[i + 1]
            /\ ui.glucose_values = [k \in 1..(n - first + 1) |-> ui.history[first + k - 1].value]

\* C29: while the window is open, after its start and after every
\* switch_patient and save_patient, current_patient_id is the id of a stored
\* patient; and once the program was started, however often it is started
\* again, exactly one patient is named "Default Patient".
C29_CurrentPatientExists ==
    /\ ui.started =>
          \E i \in DOMAIN patients : ui.current_patient_id = Some(patients[i].id)
    /\ (ui.started \/ patients # <<>>) =>
          Cardinality({i \in DOMAIN patients : patients[i].name = "Default Patient"}) = 1

\* C29 witness: a patient was added and a reading stored, and the program was
\* started again: the window shows the default patient.
C29_Witness ==
    /\ ui.started
    /\ ui.event[1] = "__init__"
    /\ Len(patients) = 2
    /\ readings # <<>>
    /\ ui.current_patient_id = Some(1)
    /\ patients[1].name = "Default Patient"

\* C30: update_goal_progress with an id that no goal has, and
\* update_patient_targets with an id that no patient has, return None without
\* an exception and leave every patient, reading and goal as it was; no row is
\* created.
C30_UnknownIdChangesNothing ==
    [][ \/ /\ Returned("update_goal_progress")
           /\ \A i \in DOMAIN goals : goals[i].id # ret'.args[1]
        \/ /\ Returned("update_patient_targets")
           /\ \A i \in DOMAIN patients : patients[i].id # ret'.args[1]
        => /\ ret'.raised = NoException
           /\ ret'.value = None
           /\ patients' = patients
           /\ readings' = readings
           /\ goals' = goals ]_vars

\* C30 witness: update_goal_progress has returned from a call with an id that
\* no goal has, on a store that holds a patient, a reading and a goal.
C30_Witness ==
    /\ ret.op = "update_goal_progress"
    /\ ret.raised = NoException
    /\ \A i \in DOMAIN goals : goals[i].id # ret.args[1]
    /\ patients # <<>> /\ readings # <<>> /\ goals # <<>>

====
